---- MODULE Spec2Model ----
(***************************************************************************)
(* Breathing-App: the session store (store/breathingStore) and the         *)
(* phase/scale driver (components/BreathingSphere).                        *)
(*                                                                         *)
(* Time is Date.now() in milliseconds.  Scales, progress values and cycle  *)
(* times are exact rationals <<numerator, denominator>> in lowest terms,   *)
(* denominator > 0.                                                        *)
(*                                                                         *)
(* React granularity.  A store update (zustand set) and the re-render of   *)
(* BreathingSphere that observes it are two steps: the frame callback      *)
(* registered with useFrame reads the values captured by the last          *)
(* committed render (variable r), so a frame that fires between the two    *)
(* still sees the old isBreathing, pattern and isMobile.  The render and   *)
(* the useEffect([isBreathing]) it triggers are one step (Render): store   *)
(* updates render in the sync lane, whose passive effects are flushed in   *)
(* the commit.  The clock does not advance while a render is pending: the  *)
(* commit follows the update within the resolution of the model clock.     *)
(***************************************************************************)
EXTENDS Integers, Sequences, FiniteSets, TLC

VARIABLES
  now,            \* Date.now()
  innerWidth,     \* window.innerWidth
  inhaleTime, holdTime, exhaleTime, isBreathing, currentPhase,   \* the store
  isMobile,       \* BreathingSphere useState
  startTime, isResetting, resetStartTime, scale,                 \* BreathingSphere refs
  r,              \* values captured by BreathingSphere's last committed render
  frames,         \* reset frames so far that moved the scale part of the way to 1
  last,           \* the branch the frame callback took, when the last step was one
  sess,           \* the last startBreathing() call of the session: its time, and whether
                  \* a session was already running
  elapsedTime, theme,                                            \* the store
  dom,            \* values captured by the last commit of the page's components
  timer,          \* BreathingTimer: when each instance's interval fires next (0: none)
  showInitialCountdown,                                          \* StartButton useState
  count, isVisible,                                              \* InitialCountdown useState
  countdownTimer, hideTimer,  \* InitialCountdown: when its timeouts fire (0: none)
  storage,        \* localStorage item 'breathing-sessions'
  page,           \* the route shown
  sessions, currentPage,   \* StatsPage useState
  customPattern, isCustomActive, isExpanded,  \* CustomBreathing useState
  task,           \* what is left to run of the event handler in progress
  ui              \* the last user action or timer callback, when the last step was one

\* the driver: the store's session fields and BreathingSphere
sphereVars == << now, innerWidth, inhaleTime, holdTime, exhaleTime, isBreathing,
                 currentPhase, isMobile, startTime, isResetting, resetStartTime,
                 scale, r, frames, last, sess >>

\* the store's other fields
storeVars == << elapsedTime, theme >>

\* the state of StatsPage
statsVars == << sessions, currentPage >>

\* the state of CustomBreathing
customVars == << customPattern, isCustomActive, isExpanded >>

\* the page's components and what they keep outside the store
pageVars == << dom, timer, showInitialCountdown, count, isVisible, countdownTimer,
               hideTimer, storage, page, statsVars, customVars, task, ui >>

vars == << sphereVars, storeVars, pageVars >>

----------------------------------------------------------------------------
\* Bounds of the model

Tick == 1000 \div 4            \* resolution of the model clock: a quarter second, in ms
MaxTicks == 8                  \* the clock stops this many ticks after mount
MaxPartialFrames == 3          \* reset frames that move the scale part of the way to 1
LoadTime == 4 * Tick           \* Date.now() when the page is mounted
MaxNow == LoadTime + MaxTicks * Tick
ClockSteps == {Tick, 4 * Tick} \* how far the clock moves in one step
Widths == {500, 1024}          \* window widths tried
Patterns == { <<1, 1, 1>> }   \* arguments of setBreathingPattern
MaxLongTicks == 44             \* SpecTick: the clock stops this many ticks after mount
MaxNowLong == LoadTime + MaxLongTicks * Tick
StartTimes == {LoadTime, LoadTime + 3 * Tick}              \* SpecTick: when the session started
LongPatterns == { <<4, 0, 6>>, <<4, 4, 6>>, <<1, 1, 1>> }  \* SpecTick: the session's pattern
MaxStoreTicks == 1             \* SpecStore: the clock stops this many ticks after mount
MaxNowStore == LoadTime + MaxStoreTicks * Tick
StorePatterns == { <<1, 1, 1>> }   \* SpecStore: arguments of setBreathingPattern
StoreTimes == {0}              \* SpecStore: arguments of setInhaleTime, setHoldTime, setExhaleTime
StoreElapsed == {2}            \* SpecStore: arguments of setElapsedTime
StoreThemes == {"Forest"}      \* SpecStore: arguments of setTheme
MaxSessions == 17              \* SpecStats: the longest stored list
MaxPatternTicks == 12          \* SpecPattern: the clock stops this many ticks after mount
MaxAppTicks == 24              \* SpecApp: the clock stops this many ticks after mount
MaxNowApp == LoadTime + MaxAppTicks * Tick
AppClockSteps == {4 * Tick}    \* SpecApp: how far the clock moves in one step
AppWidths == {1024}            \* SpecApp, SpecStore: the window width
AppPresets == {1, 3}           \* SpecApp: the presets the user picks, by position
OldSession ==                  \* SpecApp: a record stored by an earlier visit
  [id |-> 1, pattern |-> "4-7-8", duration |-> 9, date |-> 0,
   inhaleTime |-> 4, holdTime |-> 7, exhaleTime |-> 8]

----------------------------------------------------------------------------
\* Program constants

MobileBreakpoint == 768
MsPerSecond == 1000
ResetDurationNum == 1          \* resetDuration = 0.5 = 1/2
ResetDurationDen == 2
MobileMaxNum == 3              \* 1.5 = 3/2
MobileMaxDen == 2
DesktopMax == 2

----------------------------------------------------------------------------
\* Rational arithmetic

RECURSIVE GCD(_, _)
GCD(a, b) == IF b = 0 THEN a ELSE GCD(b, a % b)

Abs(x) == IF x < 0 THEN -x ELSE x

\* NaN, the result of 0 / 0 and of x % 0, is the pair with denominator 0;
\* arithmetic on it gives NaN and every comparison with it is false.  (A
\* nonzero number is divided by 0 only where the dividend is already NaN.)
NaN == << 0, 0 >>

Rat(n, d) ==
  IF d = 0 THEN NaN
  ELSE LET s == IF d < 0 THEN -1 ELSE 1
           g == GCD(Abs(n), Abs(d))
       IN  << (s * n) \div g, (s * d) \div g >>

Whole(n) == << n, 1 >>
RAdd(x, y) == Rat(x[1] * y[2] + y[1] * x[2], x[2] * y[2])
RSub(x, y) == Rat(x[1] * y[2] - y[1] * x[2], x[2] * y[2])
RMul(x, y) == Rat(x[1] * y[1], x[2] * y[2])
RDiv(x, y) == Rat(x[1] * y[2], x[2] * y[1])
RLt(x, y) == x[1] * y[2] < y[1] * x[2]
RLe(x, y) == x[2] # 0 /\ y[2] # 0 /\ x[1] * y[2] <= y[1] * x[2]
RMin(x, y) == IF RLt(y, x) THEN y ELSE x

\* x % m of JavaScript for x >= 0 and an integer m >= 0
RMod(x, m) == IF m = 0 \/ x[2] = 0 THEN NaN ELSE Rat(x[1] % (m * x[2]), x[2])

----------------------------------------------------------------------------
\* BreathingSphere: the pure parts of the frame callback

\* THREE.MathUtils.lerp(x, y, t) = (1 - t) * x + t * y
Lerp(x, y, t) == RAdd(RMul(RSub(Whole(1), t), x), RMul(t, y))

\* (Date.now() - since) / 1000
SecondsSince(since) == Rat(now - since, MsPerSecond)

\* mutant: the progress is not clamped to 1
ResetProgressUnclamped(resetElapsed) ==
  RDiv(resetElapsed, Rat(ResetDurationNum, ResetDurationDen))

\* Math.min(resetElapsed / resetDuration, 1)
ResetProgress(resetElapsed) ==
  RMin(RDiv(resetElapsed, Rat(ResetDurationNum, ResetDurationDen)), Whole(1))

\* elapsedTime % totalCycleTime
CycleTime(elapsed, totalCycleTime) == RMod(elapsed, totalCycleTime)

\* mutant: the inhale test is <= instead of <
PhaseAtInclusive(time, inh, hold) ==
  IF RLe(time, Whole(inh)) THEN "inhale"
  ELSE IF RLt(time, Whole(inh + hold)) THEN "hold"
  ELSE "exhale"

\* the branch of the if / else-if / else chain, as the phase it reports
PhaseAt(time, inh, hold) ==
  IF RLt(time, Whole(inh)) THEN "inhale"
  ELSE IF RLt(time, Whole(inh + hold)) THEN "hold"
  ELSE "exhale"

\* mutant: the exhale progress is divided by inhaleTime
TargetScaleExhaleByInhale(time, inh, hold, exh) ==
  IF RLt(time, Whole(inh)) THEN RAdd(Whole(1), RDiv(time, Whole(inh)))
  ELSE IF RLt(time, Whole(inh + hold)) THEN Whole(2)
  ELSE RSub(Whole(2), RDiv(RSub(time, Whole(inh + hold)), Whole(inh)))

\* targetScale of the same chain
TargetScale(time, inh, hold, exh) ==
  IF RLt(time, Whole(inh)) THEN RAdd(Whole(1), RDiv(time, Whole(inh)))
  ELSE IF RLt(time, Whole(inh + hold)) THEN Whole(2)
  ELSE RSub(Whole(2), RDiv(RSub(time, Whole(inh + hold)), Whole(exh)))

\* mutant: no mobile limit
MaxScaleUncapped(mobile) == Whole(DesktopMax)

\* maxScale = isMobile ? 1.5 : 2
MaxScale(mobile) == IF mobile THEN Rat(MobileMaxNum, MobileMaxDen) ELSE Whole(DesktopMax)

\* mutant: the scale is eased from its previous value towards the capped target
CappedScaleSmoothed(target, mobile) ==
  Lerp(scale, RMin(target, IF mobile THEN Rat(MobileMaxNum, MobileMaxDen) ELSE Whole(DesktopMax)),
       Rat(1, 2))

\* Math.min(targetScale, maxScale)
CappedScale(target, mobile) == RMin(target, MaxScale(mobile))

\* window.innerWidth < 768
CheckMobile(width) == width < MobileBreakpoint

----------------------------------------------------------------------------
\* State

NoFrame == "none"
NoSession == [startedAt |-> 0, restarted |-> FALSE]

\* what a render of BreathingSphere captures from the store and its own state
Snapshot ==
  [isBreathing |-> isBreathing, inhaleTime |-> inhaleTime, holdTime |-> holdTime,
   exhaleTime |-> exhaleTime, isMobile |-> isMobile]

RenderPending == r # Snapshot

\* theme of the store's initial state: the colours of the preset theme 'Ocean'
InitialTheme == "Ocean"

\* the BreathingTimer instances of HomePage: the mobile layout mounts one while
\* isBreathing, the desktop layout always has one
Instances == {"mobile", "desktop"}

NoTimer == 0
\* A localStorage item: not set (getItem gives null), the JSON text of a
\* list of session records (value), or text that is not JSON
NoItem == [kind |-> "null", value |-> << >>]
Garbage == [kind |-> "garbage", value |-> << >>]
JSONStringify(list) == [kind |-> "json", value |-> list]
JSONParse(item) == item.value   \* of JSON text; JSON.parse throws on Malformed text
Malformed(item) == item.kind = "garbage"

\* SpecApp: what the item holds when the page is loaded
StoredItems == { NoItem, Garbage, JSONStringify(<< OldSession >>) }
NoTask == << >>
NoAction == "none"

\* mutant: the effects depend on isBreathing only
DepsIsBreathingOnly == [isBreathing |-> isBreathing, elapsedTime |-> 0]

\* what the effects of the page's components depend on
Deps == [isBreathing |-> isBreathing, elapsedTime |-> elapsedTime]

DomPending == dom # Deps

\* HomePage as mounted: no countdown shown, CustomBreathing's initial
\* pattern, no interval (BreathingTimer's effect found isBreathing false)
PageMounted ==
  /\ dom = Deps
  /\ timer = [i \in Instances |-> NoTimer]
  /\ showInitialCountdown = FALSE
  /\ count = 0
  /\ isVisible = FALSE
  /\ countdownTimer = NoTimer
  /\ hideTimer = NoTimer
  /\ page = "home"
  /\ sessions = << >>
  /\ currentPage = 1
  /\ customPattern = [inhale |-> 4, hold |-> 4, exhale |-> 6]
  /\ isCustomActive = FALSE
  /\ isExpanded = FALSE
  /\ task = NoTask
  /\ ui = NoAction

\* After mount: the store's initial state; the first render captured
\* isMobile = false; the mount effects have run: checkMobile() set isMobile,
\* and the isBreathing effect, finding isBreathing false and both mesh refs
\* attached, entered resetting mode.
SphereMounted ==
  /\ now = LoadTime
  /\ innerWidth \in Widths
  /\ inhaleTime = 4 /\ holdTime = 4 /\ exhaleTime = 6
  /\ isBreathing = FALSE
  /\ currentPhase = "rest"
  /\ isMobile = CheckMobile(innerWidth)
  /\ startTime = 0
  /\ isResetting = TRUE
  /\ resetStartTime = now
  /\ scale = Whole(1)
  /\ r = [isBreathing |-> FALSE, inhaleTime |-> 4, holdTime |-> 4,
          exhaleTime |-> 6, isMobile |-> FALSE]
  /\ frames = 0
  /\ last = NoFrame
  /\ sess = NoSession
  /\ elapsedTime = 0
  /\ theme = InitialTheme
  /\ PageMounted

Init ==
  /\ SphereMounted
  /\ storage = NoItem

----------------------------------------------------------------------------
\* The store's operations

\* mutant: startBreathing sets the running flag only
StartBreathingNoPhase ==
  /\ isBreathing' = TRUE
  /\ sess' = [startedAt |-> now, restarted |-> isBreathing]
  /\ last' = NoFrame
  /\ UNCHANGED << now, innerWidth, inhaleTime, holdTime, exhaleTime, currentPhase,
                  isMobile, startTime, isResetting, resetStartTime, scale, r, frames >>
  /\ UNCHANGED storeVars

StartBreathing ==
  /\ isBreathing' = TRUE
  /\ currentPhase' = "inhale"
  /\ sess' = [startedAt |-> now, restarted |-> isBreathing]
  /\ last' = NoFrame
  /\ UNCHANGED << now, innerWidth, inhaleTime, holdTime, exhaleTime, isMobile,
                  startTime, isResetting, resetStartTime, scale, r, frames >>
  /\ UNCHANGED storeVars

\* mutant: stopBreathing also clears the elapsed counter
StopBreathingClearsElapsed ==
  /\ isBreathing' = FALSE
  /\ currentPhase' = "rest"
  /\ elapsedTime' = 0
  /\ sess' = NoSession
  /\ last' = NoFrame
  /\ UNCHANGED << now, innerWidth, inhaleTime, holdTime, exhaleTime, isMobile,
                  startTime, isResetting, resetStartTime, scale, r, frames, theme >>

StopBreathing ==
  /\ isBreathing' = FALSE
  /\ currentPhase' = "rest"
  /\ sess' = NoSession
  /\ last' = NoFrame
  /\ UNCHANGED << now, innerWidth, inhaleTime, holdTime, exhaleTime, isMobile,
                  startTime, isResetting, resetStartTime, scale, r, frames >>
  /\ UNCHANGED storeVars

\* mutant: setBreathingPattern also starts the session
SetBreathingPatternStarts(inh, hold, exh) ==
  /\ inhaleTime' = inh
  /\ holdTime' = hold
  /\ exhaleTime' = exh
  /\ currentPhase' = "inhale"
  /\ isBreathing' = TRUE
  /\ last' = NoFrame
  /\ UNCHANGED << now, innerWidth, isMobile, startTime, isResetting,
                  resetStartTime, scale, r, frames, sess >>
  /\ UNCHANGED storeVars

SetBreathingPattern(inh, hold, exh) ==
  /\ inhaleTime' = inh
  /\ holdTime' = hold
  /\ exhaleTime' = exh
  /\ currentPhase' = "inhale"
  /\ last' = NoFrame
  /\ UNCHANGED << now, innerWidth, isBreathing, isMobile, startTime, isResetting,
                  resetStartTime, scale, r, frames, sess >>
  /\ UNCHANGED storeVars

----------------------------------------------------------------------------
\* BreathingSphere

\* the window is resized and the resize listener runs checkMobile
Resize(width) ==
  /\ width # innerWidth
  /\ innerWidth' = width
  /\ isMobile' = CheckMobile(width)
  /\ last' = NoFrame
  /\ UNCHANGED << now, inhaleTime, holdTime, exhaleTime, isBreathing, currentPhase,
                  startTime, isResetting, resetStartTime, scale, r, frames, sess >>
  /\ UNCHANGED storeVars

\* useEffect(..., [isBreathing]), run when the committed isBreathing changed
BreathingEffect ==
  IF isBreathing
  THEN /\ startTime' = now
       /\ isResetting' = FALSE
       /\ UNCHANGED resetStartTime
  ELSE /\ isResetting' = TRUE
       /\ resetStartTime' = now
       /\ UNCHANGED startTime

\* BreathingSphere re-renders: the frame callback now closes over the
\* current values, and the effects whose dependencies changed run
Render ==
  /\ RenderPending
  /\ r' = Snapshot
  /\ IF r.isBreathing # isBreathing
     THEN BreathingEffect
     ELSE UNCHANGED << startTime, isResetting, resetStartTime >>
  /\ last' = NoFrame
  /\ UNCHANGED << now, innerWidth, inhaleTime, holdTime, exhaleTime, isBreathing,
                  currentPhase, isMobile, scale, frames, sess >>
  /\ UNCHANGED storeVars

\* mutant: the reset branch reports the phase Rest to the store
ResetFrameSetsPhase ==
  LET resetProgress == ResetProgress(SecondsSince(resetStartTime))
      partial == /\ scale # Whole(1)
                 /\ RLt(Whole(0), resetProgress) /\ RLt(resetProgress, Whole(1))
  IN  /\ partial => frames < MaxPartialFrames
      /\ frames' = IF partial THEN frames + 1 ELSE frames
      /\ scale' = Lerp(scale, Whole(1), resetProgress)
      /\ isResetting' = (resetProgress # Whole(1))
      /\ last' = "reset"
      /\ currentPhase' = "rest"

\* the reset branch of the frame callback
ResetFrame ==
  LET resetProgress == ResetProgress(SecondsSince(resetStartTime))
      partial == /\ scale # Whole(1)
                 /\ RLt(Whole(0), resetProgress) /\ RLt(resetProgress, Whole(1))
  IN  /\ partial => frames < MaxPartialFrames
      /\ frames' = IF partial THEN frames + 1 ELSE frames
      /\ scale' = Lerp(scale, Whole(1), resetProgress)
      /\ isResetting' = (resetProgress # Whole(1))
      /\ last' = "reset"
      /\ UNCHANGED << currentPhase >>

\* the running branch of the frame callback
RunningFrame ==
  LET time == CycleTime(SecondsSince(startTime),
                        r.inhaleTime + r.holdTime + r.exhaleTime)
  IN  /\ currentPhase' = PhaseAt(time, r.inhaleTime, r.holdTime)
      /\ scale' = CappedScale(TargetScale(time, r.inhaleTime, r.holdTime, r.exhaleTime),
                              r.isMobile)
      /\ last' = "running"
      /\ UNCHANGED << isResetting, frames >>

\* useFrame callback; both mesh refs are attached from mount on
Frame ==
  /\ IF isResetting THEN ResetFrame
     ELSE IF ~r.isBreathing
          THEN /\ last' = "idle"
               /\ UNCHANGED << currentPhase, scale, isResetting, frames >>
          ELSE RunningFrame
  /\ UNCHANGED << now, innerWidth, inhaleTime, holdTime, exhaleTime, isBreathing,
                  isMobile, startTime, resetStartTime, r, sess >>
  /\ UNCHANGED storeVars

----------------------------------------------------------------------------
\* The clock

Advance(step, limit) ==
  /\ ~RenderPending
  /\ now + step <= limit
  /\ now' = now + step
  /\ last' = NoFrame
  /\ UNCHANGED << innerWidth, inhaleTime, holdTime, exhaleTime, isBreathing,
                  currentPhase, isMobile, startTime, isResetting, resetStartTime,
                  scale, r, frames, sess >>
  /\ UNCHANGED storeVars

----------------------------------------------------------------------------

\* the driver on its own: the page's components stay as mounted
Next ==
  \/ StartBreathing /\ UNCHANGED pageVars
  \/ StopBreathing /\ UNCHANGED pageVars
  \/ \E p \in Patterns : SetBreathingPattern(p[1], p[2], p[3]) /\ UNCHANGED pageVars
  \/ \E w \in Widths : Resize(w) /\ UNCHANGED pageVars
  \/ Render /\ UNCHANGED pageVars
  \/ Frame /\ UNCHANGED pageVars
  \/ \E s \in ClockSteps : Advance(s, MaxNow) /\ UNCHANGED pageVars

Spec == Init /\ [][Next]_vars

----------------------------------------------------------------------------
\* The running branch of the frame callback as a function of its inputs: a
\* session with one of LongPatterns, started at one of StartTimes on either
\* viewport class and rendered, is observed by frames at arbitrary instants
\* (any number of frames, any spacing) over more than one full cycle.

InitTick ==
  /\ now \in StartTimes
  /\ innerWidth \in Widths
  /\ \E p \in LongPatterns : inhaleTime = p[1] /\ holdTime = p[2] /\ exhaleTime = p[3]
  /\ isBreathing = TRUE
  /\ currentPhase = "inhale"
  /\ isMobile = CheckMobile(innerWidth)
  /\ startTime = now
  /\ isResetting = FALSE
  /\ resetStartTime = LoadTime
  /\ scale = Whole(1)
  /\ r = Snapshot
  /\ frames = 0
  /\ last = NoFrame
  /\ sess = [startedAt |-> now, restarted |-> FALSE]
  /\ elapsedTime = 0
  /\ theme = InitialTheme
  /\ PageMounted
  /\ storage = NoItem

NextTick ==
  \/ Frame /\ UNCHANGED pageVars
  \/ \E s \in ClockSteps : Advance(s, MaxNowLong) /\ UNCHANGED pageVars

SpecTick == InitTick /\ [][NextTick]_vars

----------------------------------------------------------------------------
\* The store's other operations

sessionFields == << inhaleTime, holdTime, exhaleTime, isBreathing, currentPhase >>

sphereState == << now, innerWidth, isMobile, startTime, isResetting, resetStartTime,
                  scale, r, frames >>

\* `${inhaleTime}-${holdTime}-${exhaleTime}`
\* pageVars without ui
pageState == << dom, timer, showInitialCountdown, count, isVisible, countdownTimer,
                hideTimer, storage, page, statsVars, customVars, task >>

SetElapsedTime(time) ==
  /\ elapsedTime' = time
  /\ last' = NoFrame
  /\ UNCHANGED << sessionFields, sphereState, sess, theme >>

\* setTheme; updateScrollbarColors only restyles the document
SetTheme(t) ==
  /\ theme' = t
  /\ last' = NoFrame
  /\ UNCHANGED << sessionFields, sphereState, sess, elapsedTime >>

SetInhaleTime(time) ==
  /\ inhaleTime' = time
  /\ last' = NoFrame
  /\ UNCHANGED << holdTime, exhaleTime, isBreathing, currentPhase, sphereState, sess,
                  storeVars >>

SetHoldTime(time) ==
  /\ holdTime' = time
  /\ last' = NoFrame
  /\ UNCHANGED << inhaleTime, exhaleTime, isBreathing, currentPhase, sphereState, sess,
                  storeVars >>

SetExhaleTime(time) ==
  /\ exhaleTime' = time
  /\ last' = NoFrame
  /\ UNCHANGED << inhaleTime, holdTime, isBreathing, currentPhase, sphereState, sess,
                  storeVars >>

----------------------------------------------------------------------------
\* The store driven through all its operations, with any arguments, and the
\* driver that reads it; the page's components stay as mounted.

PatternText(inh, hold, exh) == ToString(inh) \o "-" \o ToString(hold) \o "-" \o ToString(exh)

NextStore ==
  \/ StartBreathing /\ ui' = NoAction /\ UNCHANGED pageState
  \/ StopBreathing /\ ui' = NoAction /\ UNCHANGED pageState
  \/ \E p \in StorePatterns :
       /\ SetBreathingPattern(p[1], p[2], p[3])
       /\ ui' = "setBreathingPattern " \o PatternText(p[1], p[2], p[3])
       /\ UNCHANGED pageState
  \/ \E t \in StoreTimes : SetInhaleTime(t) /\ ui' = NoAction /\ UNCHANGED pageState
  \/ \E t \in StoreTimes : SetHoldTime(t) /\ ui' = NoAction /\ UNCHANGED pageState
  \/ \E t \in StoreTimes : SetExhaleTime(t) /\ ui' = NoAction /\ UNCHANGED pageState
  \/ \E t \in StoreElapsed : SetElapsedTime(t) /\ ui' = NoAction /\ UNCHANGED pageState
  \/ \E t \in StoreThemes : SetTheme(t) /\ ui' = NoAction /\ UNCHANGED pageState
  \/ Render /\ ui' = NoAction /\ UNCHANGED pageState
  \/ Frame /\ ui' = NoAction /\ UNCHANGED pageState
  \/ \E s \in ClockSteps : Advance(s, MaxNowStore) /\ ui' = NoAction /\ UNCHANGED pageState

InitStore ==
  /\ SphereMounted
  /\ innerWidth \in AppWidths
  /\ storage = NoItem

SpecStore == InitStore /\ [][NextStore]_vars

----------------------------------------------------------------------------
\* The page (HomePage): StartButton, InitialCountdown, BreathingTimer.
\*
\* The page's components subscribe to the whole store and render in the
\* sync lane: the commit (RenderDom) follows a store update before any other
\* callback runs, so every step of the page but RenderDom waits for it, and
\* the values the handlers and timer callbacks close over are those of the
\* store, except the ones the commit has yet to see (dom).  A handler that
\* writes the store twice runs as two steps (task).  One layout is visible,
\* so one StartButton is pressed; both BreathingTimer instances run.

CountdownInitialCount == 3
CountdownInterval == 1000
HideDelay == 500
TimerInterval == 1000

\* the page is idle between callbacks
Settled == page = "home" /\ ~DomPending /\ task = NoTask

\* mutant: the effect's cleanup leaves a running interval in place
TimerEffectKeepsInterval ==
  IF isBreathing
  THEN /\ timer' = [i \in Instances |->
                      IF timer[i] = NoTimer THEN now + TimerInterval ELSE timer[i]]
       /\ UNCHANGED << sphereVars, storeVars >>
  ELSE /\ timer' = [i \in Instances |-> NoTimer]
       /\ SetElapsedTime(0)

\* BreathingTimer's effect, deps [isBreathing, setElapsedTime, elapsedTime]:
\* cleanup clears the interval of the previous run; the mobile instance is
\* mounted while HomePage renders isBreathing
TimerEffect ==
  IF isBreathing
  THEN /\ timer' = [i \in Instances |-> now + TimerInterval]
       /\ UNCHANGED << sphereVars, storeVars >>
  ELSE /\ timer' = [i \in Instances |-> NoTimer]
       /\ SetElapsedTime(0)

\* StartButton's effect: a running session takes the countdown away, and
\* unmounting InitialCountdown clears its timeouts
CountdownEndEffect ==
  IF isBreathing
  THEN /\ showInitialCountdown' = FALSE
       /\ count' = 0
       /\ isVisible' = FALSE
       /\ countdownTimer' = NoTimer
       /\ hideTimer' = NoTimer
  ELSE UNCHANGED << showInitialCountdown, count, isVisible, countdownTimer, hideTimer >>

\* the page's components re-render and their effects run
RenderDom ==
  /\ page = "home"
  /\ DomPending
  /\ dom' = Deps
  /\ TimerEffect
  /\ CountdownEndEffect
  /\ ui' = NoAction
  /\ UNCHANGED << storage, page, statsVars, customVars, task >>

\* mutant: the interval callback also reports the phase Rest
IntervalFireSetsPhase(i) ==
  /\ Settled
  /\ timer[i] # NoTimer
  /\ now >= timer[i]
  /\ elapsedTime' = dom.elapsedTime + 1
  /\ currentPhase' = "rest"
  /\ last' = NoFrame
  /\ UNCHANGED << now, innerWidth, inhaleTime, holdTime, exhaleTime, isBreathing,
                  isMobile, startTime, isResetting, resetStartTime, scale, r,
                  frames, sess, theme >>
  /\ timer' = [timer EXCEPT ![i] = now + TimerInterval]
  /\ ui' = "interval"
  /\ UNCHANGED << dom, showInitialCountdown, count, isVisible, countdownTimer,
                  hideTimer, storage, page, statsVars, customVars, task >>

\* the interval callback of one BreathingTimer: setElapsedTime(elapsedTime + 1)
\* with the elapsedTime its render captured
IntervalFire(i) ==
  /\ Settled
  /\ timer[i] # NoTimer
  /\ now >= timer[i]
  /\ SetElapsedTime(dom.elapsedTime + 1)
  /\ timer' = [timer EXCEPT ![i] = now + TimerInterval]
  /\ ui' = "interval"
  /\ UNCHANGED << dom, showInitialCountdown, count, isVisible, countdownTimer,
                  hideTimer, storage, page, statsVars, customVars, task >>

\* StartButton.handleStart: the button shows 'Start' while not isBreathing
HandleStart ==
  /\ Settled
  /\ ~isBreathing
  /\ showInitialCountdown' = TRUE
  /\ IF showInitialCountdown
     THEN UNCHANGED << count, isVisible, countdownTimer, hideTimer >>
     ELSE /\ count' = CountdownInitialCount
          /\ isVisible' = TRUE
          /\ countdownTimer' = now + CountdownInterval
          /\ hideTimer' = NoTimer
  /\ ui' = IF showInitialCountdown THEN "pressedInCountdown" ELSE "handleStart"
  /\ UNCHANGED << sphereVars, storeVars, dom, timer, storage, page, statsVars,
                  customVars, task >>

\* mutant: the effect starts the session when the count shows 1
CountdownTimeoutEarly ==
  /\ Settled
  /\ countdownTimer # NoTimer
  /\ now >= countdownTimer
  /\ count' = count - 1
  /\ IF count' = 1
     THEN /\ StartBreathing
          /\ hideTimer' = now + HideDelay
          /\ countdownTimer' = NoTimer
     ELSE /\ countdownTimer' = now + CountdownInterval
          /\ UNCHANGED << hideTimer, sphereVars, storeVars >>
  /\ ui' = "countdown"
  /\ UNCHANGED << dom, timer, showInitialCountdown, isVisible, storage, page,
                  statsVars, customVars, task >>

\* the timeout of InitialCountdown's effect: setCount(count - 1); the effect
\* of the render that follows starts the session at 0, or waits again
CountdownTimeout ==
  /\ Settled
  /\ countdownTimer # NoTimer
  /\ now >= countdownTimer
  /\ count' = count - 1
  /\ IF count' = 0
     THEN /\ StartBreathing
          /\ hideTimer' = now + HideDelay
          /\ countdownTimer' = NoTimer
     ELSE /\ countdownTimer' = now + CountdownInterval
          /\ UNCHANGED << hideTimer, sphereVars, storeVars >>
  /\ ui' = "countdown"
  /\ UNCHANGED << dom, timer, showInitialCountdown, isVisible, storage, page,
                  statsVars, customVars, task >>

\* the session record handleStop creates, from the values StartButton's
\* render captured; crypto.randomUUID() is modelled by numbering the records

\* mutant: the duration is read after the counter has been reset
NewSessionAfterReset(existing) ==
  [id |-> Len(existing) + 1,
   pattern |-> PatternText(inhaleTime, holdTime, exhaleTime),
   duration |-> 0,
   date |-> now,
   inhaleTime |-> inhaleTime, holdTime |-> holdTime, exhaleTime |-> exhaleTime]

NewSession(existing) ==
  [id |-> Len(existing) + 1,
   pattern |-> PatternText(inhaleTime, holdTime, exhaleTime),
   duration |-> dom.elapsedTime,
   date |-> now,
   inhaleTime |-> inhaleTime, holdTime |-> holdTime, exhaleTime |-> exhaleTime]

\* mutant: the list handleStop appends to starts empty
ExistingSessionsDropped == << >>

\* existingSessions ? JSON.parse(existingSessions) : []
ExistingSessions == IF storage.kind = "null" THEN << >> ELSE JSONParse(storage)

\* StartButton.handleStop: the button shows 'Stop' while isBreathing.  On
\* text that is not JSON, JSON.parse throws and the handler ends there.
HandleStop ==
  /\ Settled
  /\ isBreathing
  /\ IF Malformed(storage)
     THEN UNCHANGED << storage, sphereVars, storeVars >>
     ELSE /\ storage' = JSONStringify(Append(ExistingSessions, NewSession(ExistingSessions)))
          /\ StopBreathing
  /\ ui' = "handleStop"
  /\ UNCHANGED << dom, timer, showInitialCountdown, count, isVisible, countdownTimer,
                  hideTimer, page, statsVars, customVars, task >>

----------------------------------------------------------------------------
\* Controls

BREATHING_PATTERNS ==
  << [name |-> "Calm", inhale |-> 4, hold |-> 4, exhale |-> 6, theme |-> "Ocean"],
     [name |-> "Focus", inhale |-> 4, hold |-> 7, exhale |-> 8, theme |-> "Forest"],
     [name |-> "Balance", inhale |-> 4, hold |-> 4, exhale |-> 4, theme |-> "Lavender"],
     [name |-> "Deep", inhale |-> 6, hold |-> 2, exhale |-> 7, theme |-> "Sunset"] >>

\* Controls.handlePatternSelect: setBreathingPattern, then setTheme
HandlePatternSelect(pattern) ==
  /\ Settled
  /\ IF isBreathing
     THEN UNCHANGED << sphereVars, storeVars, task >>
     ELSE /\ SetBreathingPattern(pattern.inhale, pattern.hold, pattern.exhale)
          /\ task' = << "setTheme", pattern.theme >>
  /\ ui' = "handlePatternSelect"
  /\ UNCHANGED << dom, timer, showInitialCountdown, count, isVisible, countdownTimer,
                  hideTimer, storage, page, statsVars, customVars >>

\* the rest of a handler that writes the store twice
ContinueTask ==
  /\ page = "home"
  /\ task # NoTask
  /\ SetTheme(task[2])
  /\ task' = NoTask
  /\ ui' = NoAction
  /\ UNCHANGED << dom, timer, showInitialCountdown, count, isVisible, countdownTimer,
                  hideTimer, storage, page, statsVars, customVars >>

----------------------------------------------------------------------------
\* StatsPage

\* the Stats button of HomePage (disabled while isCountdownVisible or
\* isBreathing) navigates to /stats: HomePage unmounts, StatsPage mounts and
\* its effect reads the stored sessions.  JSON.parse throwing inside the
\* effect is an uncaught render-phase error: React unmounts the application.
NavigateStats ==
  /\ Settled
  /\ ~isBreathing
  /\ ~showInitialCountdown
  /\ IF Malformed(storage)
     THEN page' = "crashed" /\ UNCHANGED sessions
     ELSE page' = "stats" /\ sessions' = ExistingSessions
  /\ currentPage' = 1
  /\ ui' = "navigate"
  /\ last' = NoFrame
  /\ UNCHANGED << sessionFields, sphereState, sess, storeVars, dom, timer,
                  showInitialCountdown, count, isVisible, countdownTimer, hideTimer,
                  storage, customVars, task >>

\* StatsPage.handleClearStats; confirmed is the answer to window.confirm
HandleClearStats(confirmed) ==
  /\ page = "stats"
  /\ IF confirmed
     THEN storage' = NoItem /\ sessions' = << >> /\ currentPage' = 1
     ELSE UNCHANGED << storage, sessions, currentPage >>
  /\ ui' = IF confirmed THEN "clearConfirmed" ELSE "clearDismissed"
  /\ UNCHANGED << sphereVars, storeVars, dom, timer, showInitialCountdown, count,
                  isVisible, countdownTimer, hideTimer, page, customVars, task >>

\* back to the home route: HomePage and BreathingSphere mount anew, as at
\* load, over the store as it is (not breathing, elapsedTime 0)
NavigateHome ==
  /\ page = "stats"
  /\ page' = "home"
  /\ sessions' = << >>
  /\ currentPage' = 1
  /\ customPattern' = [inhale |-> 4, hold |-> 4, exhale |-> 6]
  /\ isCustomActive' = FALSE
  /\ isExpanded' = FALSE
  /\ isMobile' = CheckMobile(innerWidth)
  /\ startTime' = 0
  /\ isResetting' = TRUE
  /\ resetStartTime' = now
  /\ scale' = Whole(1)
  /\ r' = [isBreathing |-> FALSE, inhaleTime |-> inhaleTime, holdTime |-> holdTime,
           exhaleTime |-> exhaleTime, isMobile |-> FALSE]
  /\ last' = NoFrame
  /\ ui' = "navigate"
  /\ UNCHANGED << now, innerWidth, sessionFields, frames, sess, storeVars, dom, timer,
                  showInitialCountdown, count, isVisible, countdownTimer, hideTimer,
                  storage, task >>

----------------------------------------------------------------------------
\* The application: a user on the home page starts sessions through the
\* countdown, stops them, picks presets and visits the statistics, while the
\* frame loop and the timers run.

\* the clock moves when the page is idle and no timer is due before then
TimersAllow(step) ==
  /\ \A i \in Instances : timer[i] # NoTimer => now + step <= timer[i]
  /\ countdownTimer # NoTimer => now + step <= countdownTimer
  /\ hideTimer # NoTimer => now + step <= hideTimer

InitApp ==
  /\ SphereMounted
  /\ innerWidth \in AppWidths
  /\ storage \in StoredItems

NextApp ==
  \/ HandleStart
  \/ HandleStop
  \/ CountdownTimeout
  \/ \E i \in Instances : IntervalFire(i)
  \/ RenderDom
  \/ \E k \in AppPresets : HandlePatternSelect(BREATHING_PATTERNS[k])
  \/ ContinueTask
  \/ NavigateStats
  \/ \E confirmed \in BOOLEAN : HandleClearStats(confirmed)
  \/ NavigateHome
  \/ Settled /\ Render /\ ui' = NoAction /\ UNCHANGED pageState
  \/ Settled /\ Frame /\ ui' = NoAction /\ UNCHANGED pageState
  \/ \E s \in AppClockSteps :
       Settled /\ TimersAllow(s) /\ Advance(s, MaxNowApp) /\ ui' = NoAction
       /\ UNCHANGED pageState

SpecApp == InitApp /\ [][NextApp]_vars

\* Time passes, due timeouts fire and pending renders and handlers complete,
\* whatever the user does meanwhile.
RenderApp == Settled /\ Render /\ ui' = NoAction /\ UNCHANGED pageState

ClockApp ==
  \E s \in AppClockSteps :
    Settled /\ TimersAllow(s) /\ Advance(s, MaxNowApp) /\ ui' = NoAction
    /\ UNCHANGED pageState

SpecAppLive ==
  /\ SpecApp
  /\ WF_vars(RenderDom)
  /\ WF_vars(ContinueTask)
  /\ SF_vars(RenderApp)
  /\ SF_vars(CountdownTimeout)
  /\ SF_vars(ClockApp)

----------------------------------------------------------------------------
\* CustomBreathing: the form of the custom pattern.  One layout is visible,
\* so one form is used.  The text of a number input is a sequence of
\* characters.

Digits == << "0", "1", "2", "3", "4", "5", "6", "7", "8", "9" >>
IsDigit(c) == \E d \in 1..Len(Digits) : Digits[d] = c
DigitValue(c) == (CHOOSE d \in 1..Len(Digits) : Digits[d] = c) - 1

RECURSIVE ParseDigits(_, _)
ParseDigits(text, acc) ==
  IF text = << >> \/ ~IsDigit(Head(text))
  THEN acc
  ELSE ParseDigits(Tail(text), 10 * acc + DigitValue(Head(text)))

\* parseInt: an optional sign, then the decimal digits up to the first other
\* character; NaN when no digit follows the sign
ParseInt(text) ==
  LET signed == text # << >> /\ Head(text) \in {"-", "+"}
      negative == signed /\ Head(text) = "-"
      digits == IF signed THEN Tail(text) ELSE text
  IN  IF digits = << >> \/ ~IsDigit(Head(digits))
      THEN NaN
      ELSE Whole(IF negative THEN 0 - ParseDigits(digits, 0)
                 ELSE ParseDigits(digits, 0))

\* parseInt(text) || other: NaN and 0 are falsy
ParseIntOr(text, other) ==
  LET n == ParseInt(text)
  IN  IF n = NaN \/ n = Whole(0) THEN other ELSE n[1]

MathMax(a, b) == IF a >= b THEN a ELSE b
MathMin(a, b) == IF a <= b THEN a ELSE b

\* the validation of handleSubmit without its lower limit
ClampAbove(lo, hi, x) == MathMin(hi, x)

\* the validation of handleSubmit: Math.max(lo, Math.min(hi, x))
Clamp(lo, hi, x) == MathMax(lo, MathMin(hi, x))

\* the page outside CustomBreathing
homeState == << dom, timer, showInitialCountdown, count, isVisible, countdownTimer,
                hideTimer, storage, page, statsVars, task >>

\* the collapsed form is clicked (pointer-events: none while breathing)
Expand ==
  /\ Settled
  /\ ~isExpanded
  /\ ~isBreathing
  /\ isExpanded' = TRUE
  /\ ui' = NoAction
  /\ UNCHANGED << sphereVars, storeVars, homeState, customPattern, isCustomActive >>

\* CustomBreathing.handleCheckboxChange; Neutral is the grey theme
HandleCheckboxChange(checked) ==
  /\ Settled
  /\ checked # isCustomActive
  /\ isCustomActive' = checked
  /\ IF checked THEN SetTheme("Neutral") ELSE UNCHANGED << sphereVars, storeVars >>
  /\ ui' = NoAction
  /\ UNCHANGED << homeState, customPattern, isExpanded >>

\* onChange of the three inputs, rendered when the form is expanded and
\* the checkbox is checked, disabled while breathing
ChangeInhale(text) ==
  /\ Settled
  /\ isExpanded /\ isCustomActive /\ ~isBreathing
  /\ customPattern' = [customPattern EXCEPT !.inhale = ParseIntOr(text, 1)]
  /\ ui' = NoAction
  /\ UNCHANGED << sphereVars, storeVars, homeState, isCustomActive, isExpanded >>

ChangeHold(text) ==
  /\ Settled
  /\ isExpanded /\ isCustomActive /\ ~isBreathing
  /\ customPattern' = [customPattern EXCEPT !.hold = ParseIntOr(text, 0)]
  /\ ui' = NoAction
  /\ UNCHANGED << sphereVars, storeVars, homeState, isCustomActive, isExpanded >>

ChangeExhale(text) ==
  /\ Settled
  /\ isExpanded /\ isCustomActive /\ ~isBreathing
  /\ customPattern' = [customPattern EXCEPT !.exhale = ParseIntOr(text, 1)]
  /\ ui' = NoAction
  /\ UNCHANGED << sphereVars, storeVars, homeState, isCustomActive, isExpanded >>

\* mutant: handleSubmit without its isBreathing guard
HandleSubmitWhileBreathing ==
  /\ Settled
  /\ isExpanded /\ isCustomActive
  /\ SetBreathingPattern(Clamp(1, 10, customPattern.inhale),
                         Clamp(0, 10, customPattern.hold),
                         Clamp(1, 10, customPattern.exhale))
  /\ isExpanded' = FALSE
  /\ ui' = "handleSubmit"
  /\ UNCHANGED << homeState, customPattern, isCustomActive >>

\* CustomBreathing.handleSubmit: Apply, rendered with the inputs
HandleSubmit ==
  /\ Settled
  /\ isExpanded /\ isCustomActive
  /\ IF isBreathing
     THEN UNCHANGED << sphereVars, storeVars, isExpanded >>
     ELSE /\ SetBreathingPattern(Clamp(1, 10, customPattern.inhale),
                                 Clamp(0, 10, customPattern.hold),
                                 Clamp(1, 10, customPattern.exhale))
          /\ isExpanded' = FALSE
  /\ ui' = "handleSubmit"
  /\ UNCHANGED << homeState, customPattern, isCustomActive >>

\* A user who picks presets and edits and applies custom patterns, before
\* and after Start is pressed and while the session runs.
InputTexts == { << >>, << "0" >>, << "-", "3" >>, << "1", "2", ".", "5" >> }
MaxNowPattern == LoadTime + MaxPatternTicks * Tick

InitPattern ==
  /\ SphereMounted
  /\ innerWidth \in AppWidths
  /\ storage = NoItem

NextPattern ==
  \/ Expand
  \/ \E checked \in BOOLEAN : HandleCheckboxChange(checked)
  \/ \E text \in InputTexts : ChangeInhale(text)
  \/ \E text \in InputTexts : ChangeHold(text)
  \/ \E text \in InputTexts : ChangeExhale(text)
  \/ HandleSubmit
  \/ \E k \in 1..Len(BREATHING_PATTERNS) :
       HandlePatternSelect(BREATHING_PATTERNS[k])
  \/ ContinueTask
  \/ HandleStart
  \/ CountdownTimeout
  \/ RenderDom
  \/ \E s \in AppClockSteps :
       Settled /\ TimersAllow(s) /\ Advance(s, MaxNowPattern) /\ ui' = NoAction
       /\ UNCHANGED pageState

SpecPattern == InitPattern /\ [][NextPattern]_vars

----------------------------------------------------------------------------
\* StatsPage: the list of sessions, four to a page

sessionsPerPage == 4

\* Math.ceil(sessions.length / sessionsPerPage)
TotalPages == (Len(sessions) + sessionsPerPage - 1) \div sessionsPerPage

\* mutant: the first index of a page, counting pages from 0
StartIndexFromZero(p) == p * sessionsPerPage

StartIndex(p) == (p - 1) * sessionsPerPage
EndIndex(p) == StartIndex(p) + sessionsPerPage

\* list.slice(start, end), for 0 <= start <= end
Slice(list, start, end) ==
  SubSeq(list, MathMin(start, Len(list)) + 1, MathMin(end, Len(list)))

\* what page p shows
PageSessions(p) == Slice(sessions, StartIndex(p), EndIndex(p))
CurrentSessions == PageSessions(currentPage)

\* the pagination bar is rendered
PaginationShown ==
  page = "stats" /\ Len(CurrentSessions) > 0 /\ TotalPages > 1

\* Previous, disabled on page 1
PreviousPage ==
  /\ PaginationShown
  /\ currentPage # 1
  /\ currentPage' = MathMax(currentPage - 1, 1)
  /\ ui' = "previous"
  /\ UNCHANGED << sphereVars, storeVars, dom, timer, showInitialCountdown, count,
                  isVisible, countdownTimer, hideTimer, storage, page, sessions,
                  customVars, task >>

\* Next, disabled on the last page
NextPage ==
  /\ PaginationShown
  /\ currentPage # TotalPages
  /\ currentPage' = MathMin(currentPage + 1, TotalPages)
  /\ ui' = "next"
  /\ UNCHANGED << sphereVars, storeVars, dom, timer, showInitialCountdown, count,
                  isVisible, countdownTimer, hideTimer, storage, page, sessions,
                  customVars, task >>

\* A visitor with up to MaxSessions stored sessions opens the statistics,
\* pages through them and clears them.
StoredList(n) == [k \in 1..n |-> [OldSession EXCEPT !.id = k, !.date = k]]

InitStats ==
  /\ SphereMounted
  /\ innerWidth \in AppWidths
  /\ storage \in {NoItem} \cup { JSONStringify(StoredList(n)) : n \in 0..MaxSessions }

NextStats ==
  \/ NavigateStats
  \/ PreviousPage
  \/ NextPage
  \/ \E confirmed \in BOOLEAN : HandleClearStats(confirmed)
  \/ NavigateHome

SpecStats == InitStats /\ [][NextStats]_vars

----------------------------------------------------------------------------
\* What the claims are stated in: the inputs of a running frame in integer
\* milliseconds, as the frame callback's closure (r) and refs hold them.

ElapsedMs == now - startTime
InhaleMs == MsPerSecond * r.inhaleTime
HoldEndMs == MsPerSecond * (r.inhaleTime + r.holdTime)
ExhaleMs == MsPerSecond * r.exhaleTime
CycleMs == MsPerSecond * (r.inhaleTime + r.holdTime + r.exhaleTime)
TMs == ElapsedMs % CycleMs

\* scale = n / d
ScaleIs(n, d) == scale[1] * d = n * scale[2]
\* scale <= n / d and scale >= n / d, for d > 0
ScaleAtMost(n, d) == scale[1] * d <= n * scale[2]
ScaleAtLeast(n, d) == scale[1] * d >= n * scale[2]

PatternIs(inh, hold, exh) ==
  r.inhaleTime = inh /\ r.holdTime = hold /\ r.exhaleTime = exh

----------------------------------------------------------------------------
\* C1: a running frame reports exactly one phase, decided by the cycle time
\* t = (now - startTime) mod (inhale + hold + exhale): Inhale iff t < inhale,
\* Hold iff inhale <= t < inhale + hold, Exhale otherwise; with hold = 0 Hold
\* is never reported.
Thm_C1 ==
  last = "running" =>
    /\ currentPhase \in {"inhale", "hold", "exhale"}
    /\ (currentPhase = "inhale") <=> (TMs < InhaleMs)
    /\ (currentPhase = "hold") <=> (InhaleMs <= TMs /\ TMs < HoldEndMs)
    /\ (currentPhase = "exhale") <=> (HoldEndMs <= TMs)
    /\ (r.holdTime = 0 => currentPhase # "hold")

\* a frame exactly at t = inhale of a pattern without hold reports Exhale
Witness_C1 ==
  /\ last = "running"
  /\ r.holdTime = 0
  /\ TMs = InhaleMs
  /\ currentPhase = "exhale"

\* C2: on a desktop viewport a running frame sets the scale to 1 + t/inhale
\* during Inhale, 2 during Hold and 2 - (t - inhale - hold)/exhale during
\* Exhale; so it is 1 at t = 0 and 2 at t = inhale and at t = inhale + hold;
\* pattern (4,0,6): 1 at 0 s, 1.5 at 2 s, 2 (Exhale) at 4 s, 1.5 at 7 s and
\* 1 (Inhale) again at 10 s.
Thm_C2 ==
  (last = "running" /\ ~r.isMobile) =>
    /\ (TMs < InhaleMs) => ScaleIs(InhaleMs + TMs, InhaleMs)
    /\ (InhaleMs <= TMs /\ TMs < HoldEndMs) => scale = << 2, 1 >>
    /\ (HoldEndMs <= TMs) => ScaleIs(2 * ExhaleMs - (TMs - HoldEndMs), ExhaleMs)
    /\ (TMs = 0) => scale = << 1, 1 >>
    /\ (TMs = InhaleMs) => scale = << 2, 1 >>
    /\ (TMs = HoldEndMs) => scale = << 2, 1 >>
    /\ PatternIs(4, 0, 6) =>
         /\ (ElapsedMs = 0) => (currentPhase = "inhale" /\ scale = << 1, 1 >>)
         /\ (ElapsedMs = 2000) => (currentPhase = "inhale" /\ scale = << 3, 2 >>)
         /\ (ElapsedMs = 4000) => (currentPhase = "exhale" /\ scale = << 2, 1 >>)
         /\ (ElapsedMs = 7000) => (currentPhase = "exhale" /\ scale = << 3, 2 >>)
         /\ (ElapsedMs = 10000) => (currentPhase = "inhale" /\ scale = << 1, 1 >>)

\* the desktop frame 10 s into a (4,0,6) session: wrapped to t = 0
Witness_C2 ==
  /\ last = "running"
  /\ ~r.isMobile
  /\ PatternIs(4, 0, 6)
  /\ ElapsedMs = 10000
  /\ currentPhase = "inhale"
  /\ scale = << 1, 1 >>

\* C3: in every state the scale lies in [1, 2]; right after a running frame
\* it lies in [1, maxScale] of the viewport class that frame used.
Thm_C3 ==
  /\ scale[2] > 0
  /\ ScaleAtLeast(1, 1)
  /\ ScaleAtMost(2, 1)
  /\ (last = "running" /\ r.isMobile) => ScaleAtMost(3, 2)

\* a reset frame on a viewport that became mobile, after a session of the
\* pattern set by setBreathingPattern was stopped above 1.5
Witness_C3 ==
  /\ last = "reset"
  /\ isMobile
  /\ inhaleTime = 1
  /\ scale = << 2, 1 >>

\* C4: right after a frame that ran while the viewport was classified as
\* mobile, and BreathingSphere had rendered with that class, the scale is at
\* most 1.5 (running frames and the reset decay after a stop alike).
Claim_C4 == (isMobile /\ r.isMobile /\ last # NoFrame) => ScaleAtMost(3, 2)

\* C5: phase and scale after a running frame are a function of (pattern,
\* startTime, now, viewport class) alone: they equal the value determined by
\* these inputs whatever the scale and phase were before (however many frames
\* ran or were missed), and a second frame on the same inputs changes nothing.
ExpectedPhase ==
  IF TMs < InhaleMs THEN "inhale" ELSE IF TMs < HoldEndMs THEN "hold" ELSE "exhale"

ExpectedTarget ==
  IF TMs < InhaleMs THEN Rat(InhaleMs + TMs, InhaleMs)
  ELSE IF TMs < HoldEndMs THEN << 2, 1 >>
  ELSE Rat(2 * ExhaleMs - (TMs - HoldEndMs), ExhaleMs)

ExpectedScale ==
  LET cap == IF r.isMobile THEN << 3, 2 >> ELSE << 2, 1 >>
  IN  IF RLt(cap, ExpectedTarget) THEN cap ELSE ExpectedTarget

Thm_C5 ==
  [][ (last' = "running") =>
        /\ scale' = ExpectedScale
        /\ currentPhase' = ExpectedPhase
        /\ (last = "running") => (scale' = scale /\ currentPhase' = currentPhase)
    ]_vars

\* a mobile frame 7 s into a (4,0,6) session, reached with and without
\* frames at the instants before it
Witness_C5 ==
  /\ last = "running"
  /\ r.isMobile
  /\ PatternIs(4, 0, 6)
  /\ ElapsedMs = 7000
  /\ currentPhase = "exhale"
  /\ scale = << 3, 2 >>

\* C6: a reset frame leaves the scale between 1 and its previous value; the
\* first one at or after 0.5 s from the reset start sets it to exactly 1 and
\* leaves resetting mode, an earlier one stays in resetting mode.
Thm_C6 ==
  [][ (last' = "reset") =>
        /\ ScaleAtLeast(1, 1)'
        /\ RLe(scale', scale)
        /\ (2 * (now - resetStartTime) >= MsPerSecond) => (scale' = << 1, 1 >> /\ ~isResetting')
        /\ (2 * (now - resetStartTime) < MsPerSecond) => isResetting'
    ]_vars

\* a reset frame a quarter second after the stop has taken the scale from 2 to 1.5
Witness_C6 ==
  /\ last = "reset"
  /\ isResetting
  /\ now - resetStartTime = Tick
  /\ scale = << 3, 2 >>

\* C7: after startBreathing() no frame runs the reset interpolation.
Claim_C7 == ~(isBreathing /\ last = "reset")

\* C8 as stated: outside the reset decay, currentPhase is Rest iff no session
\* is running.
Claim_C8 == isResetting \/ ((currentPhase = "rest") <=> ~isBreathing)

\* C8 as amended: while a session is running currentPhase is never Rest (the
\* converse fails: setBreathingPattern sets Inhale whether or not a session
\* is running).
Thm_C8 == isBreathing => currentPhase \in {"inhale", "hold", "exhale"}

\* a running session in Hold, right after a frame
Witness_C8 ==
  /\ isBreathing
  /\ last = "running"
  /\ currentPhase = "hold"

\* C9: once startBreathing() has run and BreathingSphere has rendered, the
\* session is running, its phase is not Rest and its cycle clock is measured
\* from the time of the call.
Claim_C9 ==
  (isBreathing /\ ~RenderPending) =>
    (currentPhase # "rest" /\ startTime = sess.startedAt)

\* C10: a frame at the instant of a startBreathing() call made while a
\* session was running reports Inhale at cycle time 0.
Claim_C10 ==
  (sess.restarted /\ last = "running" /\ now = sess.startedAt) =>
    (currentPhase = "inhale" /\ scale = << 1, 1 >>)

\* C11: the step that takes isBreathing from true to false sets currentPhase
\* to Rest and leaves the pattern, the theme and elapsedTime as they were.
Thm_C11 ==
  [][ (isBreathing /\ ~isBreathing') =>
        /\ currentPhase' = "rest"
        /\ UNCHANGED << inhaleTime, holdTime, exhaleTime, theme, elapsedTime >>
    ]_vars

\* a session stopped after two seconds with the preset Balance: the counter
\* still reads 2 and the theme is the preset's
Witness_C11 ==
  /\ ui = "handleStop"
  /\ ~isBreathing
  /\ currentPhase = "rest"
  /\ elapsedTime = 2
  /\ exhaleTime = 4
  /\ theme = "Lavender"

\* C12: setBreathingPattern(inhale, hold, exhale) makes the three durations
\* its arguments and currentPhase Inhale, and leaves isBreathing, elapsedTime
\* and the theme as they were, whether or not a session is running.
Thm_C12 ==
  [][ \A p \in StorePatterns :
        (ui' = "setBreathingPattern " \o PatternText(p[1], p[2], p[3])) =>
          /\ << inhaleTime', holdTime', exhaleTime' >> = p
          /\ currentPhase' = "inhale"
          /\ UNCHANGED << isBreathing, elapsedTime, theme >>
    ]_vars

\* setBreathingPattern(1, 1, 1) during a running session whose sphere had
\* reached scale 2, with a non-zero counter and another theme
Witness_C12 ==
  /\ ui = "setBreathingPattern 1-1-1"
  /\ isBreathing
  /\ scale = << 2, 1 >>
  /\ currentPhase = "inhale"
  /\ << inhaleTime, holdTime, exhaleTime >> = << 1, 1, 1 >>
  /\ elapsedTime = 2
  /\ theme = "Forest"

\* C13: while a session is running every firing of a BreathingTimer interval
\* adds exactly 1 to elapsedTime, no step changes it in any other way, and
\* between firings it equals the whole seconds since the session started
\* (it does not stall), whatever frames ran in between.
Thm_C13 ==
  /\ [][ /\ (ui' = "interval") => (isBreathing /\ elapsedTime' = elapsedTime + 1)
         /\ (isBreathing /\ isBreathing' /\ elapsedTime' # elapsedTime) =>
              (ui' = "interval" /\ elapsedTime' = elapsedTime + 1)
       ]_vars
  /\ []((Settled /\ isBreathing /\ \A i \in Instances : timer[i] > now) =>
          elapsedTime = (now - sess.startedAt) \div MsPerSecond)

\* the third firing, three seconds into a session, after a frame of that
\* instant has set the scale to 1 + 3/4
Witness_C13 ==
  /\ ui = "interval"
  /\ isBreathing
  /\ elapsedTime = 3
  /\ now - sess.startedAt = 3 * MsPerSecond
  /\ scale = << 7, 4 >>

\* C14: while no session is running no frame takes the running branch (the
\* first frame after a stop is a reset frame), no interval firing takes
\* effect, and once the page has rendered no interval is left and
\* elapsedTime is 0.
Claim_C14 ==
  ~isBreathing =>
    /\ last # "running"
    /\ ui # "interval"
    /\ Settled => (elapsedTime = 0 /\ \A i \in Instances : timer[i] = NoTimer)

\* C15: the stored session list changes only when a running session is
\* stopped, which appends one record after the unchanged earlier ones, and
\* when Clear Data is confirmed, which removes the item; every stop of a
\* running session appends.
Thm_C15 ==
  [][ LET old == IF storage.kind = "json" THEN storage.value ELSE << >>
          new == storage'.value
          appended == /\ ui' = "handleStop"
                      /\ isBreathing /\ ~isBreathing'
                      /\ storage'.kind = "json"
                      /\ Len(new) = Len(old) + 1
                      /\ SubSeq(new, 1, Len(old)) = old
          cleared == /\ ui' = "clearConfirmed"
                     /\ ~isBreathing
                     /\ storage' = NoItem
      IN  /\ (storage' # storage) => (appended \/ cleared)
          /\ (isBreathing /\ ~isBreathing') => appended
    ]_vars

\* a session stopped over a list that held the record of an earlier visit:
\* that record is still the first, the new one follows it
Witness_C15 ==
  /\ ui = "handleStop"
  /\ ~isBreathing
  /\ storage.kind = "json"
  /\ Len(storage.value) = 2
  /\ storage.value[1] = OldSession

\* C16: the record appended by the step that stops a session has duration
\* equal to elapsedTime as it was before the step (the whole seconds the
\* session ran, up to a firing due at that instant), the store's inhaleTime,
\* holdTime and exhaleTime, and the text "inhale-hold-exhale" of those values.
Thm_C16 ==
  [][ (isBreathing /\ ~isBreathing') =>
        LET rec == storage'.value[Len(storage'.value)]
        IN  /\ rec.duration = elapsedTime
            /\ rec.duration * MsPerSecond <= now - sess.startedAt
            /\ now - sess.startedAt <= (rec.duration + 1) * MsPerSecond
            /\ << rec.inhaleTime, rec.holdTime, rec.exhaleTime >>
                 = << inhaleTime, holdTime, exhaleTime >>
            /\ rec.pattern = (IF rec.exhaleTime = 6 THEN "4-4-6" ELSE "4-4-4")
            /\ rec.exhaleTime \in {4, 6}
    ]_vars

\* a session of the preset Balance stopped after two seconds: the record
\* says 2 and "4-4-4", and elapsedTime is still 2
Witness_C16 ==
  /\ ui = "handleStop"
  /\ ~isBreathing
  /\ elapsedTime = 2
  /\ storage.kind = "json"
  /\ LET rec == storage.value[Len(storage.value)]
     IN  rec.duration = 2 /\ rec.pattern = "4-4-4" /\ rec.exhaleTime = 4

\* C17: a stored item that is not JSON is read as an empty list: the
\* statistics page opens with no sessions instead of failing, and a stop
\* over such an item completes (the session is stopped and the item holds
\* the list of the one new record).
Claim_C17 ==
  /\ page # "crashed"
  /\ (ui = "handleStop") =>
       /\ ~isBreathing
       /\ storage.kind = "json"
       /\ Len(storage.value) >= 1

\* C18: with inhaleTime + holdTime + exhaleTime = 0 no step starts a session,
\* and no frame takes the running branch with a pattern of cycle length 0:
\* the scale stays a number.
Claim_C18 ==
  /\ [][ (inhaleTime + holdTime + exhaleTime = 0 /\ ~isBreathing)
          => ~isBreathing' ]_vars
  /\ [](/\ (last = "running") => (r.inhaleTime + r.holdTime + r.exhaleTime > 0)
        /\ scale # NaN)

\* C19: whatever presets are picked and whatever texts are typed into the
\* custom form and applied, the store holds inhaleTime in 1..10, holdTime in
\* 0..10 and exhaleTime in 1..10: the cycle length is positive.
Thm_C19 ==
  /\ inhaleTime \in 1..10 /\ holdTime \in 0..10 /\ exhaleTime \in 1..10
  /\ inhaleTime + holdTime + exhaleTime > 0

\* the texts "-3", "" and "12.5" were typed and applied: the form holds
\* -3, 0 and 12, the store 1, 0 and 10
Witness_C19 ==
  /\ ui = "handleSubmit"
  /\ customPattern = [inhale |-> 0 - 3, hold |-> 0, exhale |-> 12]
  /\ << inhaleTime, holdTime, exhaleTime >> = << 1, 0, 10 >>

\* C20: the button pressed while the countdown is pending cancels it: after
\* the press the countdown is not shown and none of its timeouts is
\* scheduled.
Claim_C20 ==
  (ui = "pressedInCountdown") =>
    /\ ~showInitialCountdown
    /\ countdownTimer = NoTimer
    /\ hideTimer = NoTimer

\* C21: a step taken while a session is running, and the step that starts
\* it, leave inhaleTime, holdTime and exhaleTime as they are: a preset picked
\* and a custom pattern applied while isBreathing change nothing.
Thm_C21 ==
  [][ isBreathing' => UNCHANGED << inhaleTime, holdTime, exhaleTime >> ]_vars

\* Apply was pressed while the session ran, with the form holding -3, 0 and
\* 12: the store still holds the preset Focus the session started with
Witness_C21 ==
  /\ ui = "handleSubmit"
  /\ isBreathing
  /\ customPattern = [inhale |-> 0 - 3, hold |-> 0, exhale |-> 12]
  /\ << inhaleTime, holdTime, exhaleTime >> = << 4, 7, 8 >>

Claim_C23 ==
  /\ ~isResetting
  /\ [][ (~isResetting /\ isResetting') => (r.isBreathing /\ ~isBreathing) ]_vars

\* C24: a frame that finds the driver in resetting mode takes the reset
\* branch (the only branch without setCurrentPhase and without the rotation):
\* the new scale and flag are determined by the old scale, resetStartTime and
\* the clock, and currentPhase, the pattern, startTime and everything else in
\* the store and the component stay as they were.
Thm_C24 ==
  [][ (isResetting /\ last' # NoFrame) =>
        LET resetProgress == ResetProgress(SecondsSince(resetStartTime))
        IN  /\ last' = "reset"
            /\ scale' = Lerp(scale, Whole(1), resetProgress)
            /\ isResetting' = (resetProgress # Whole(1))
            /\ UNCHANGED << currentPhase, isBreathing, inhaleTime, holdTime,
                            exhaleTime, startTime, resetStartTime, now, r,
                            isMobile, innerWidth, sess, storeVars, pageVars >>
    ]_vars

\* a reset frame that ran after startBreathing() and before the render that
\* leaves resetting mode moved the scale and left the phase Inhale
Witness_C24 ==
  /\ last = "reset"
  /\ isBreathing
  /\ currentPhase = "inhale"
  /\ isResetting
  /\ RLt(Whole(1), scale)
  /\ frames >= 1

\* C25: while no session is running and the driver is not in resetting mode
\* the scale is 1, and a frame takes neither branch: it leaves the scale and
\* currentPhase as they are.
Claim_C25 ==
  /\ []((~isBreathing /\ ~isResetting) => scale = Whole(1))
  /\ [][ (~isBreathing /\ ~isResetting /\ last' # NoFrame) =>
           (last' = "idle" /\ UNCHANGED << scale, currentPhase >>) ]_vars

\* C26: while a session runs, a frame and a firing of a BreathingTimer
\* interval commute.  The frame writes currentPhase and the scale as a
\* function of what BreathingSphere holds (its render, startTime, the reset
\* state) and the clock, and leaves elapsedTime and what the firing reads
\* (the page's render, the intervals, the clock) alone; the firing writes
\* elapsedTime from the page's render and leaves currentPhase, the scale and
\* what the frame reads alone.
Thm_C26 ==
  [][ /\ (isBreathing /\ last' # NoFrame) =>
           /\ UNCHANGED << elapsedTime, dom, timer, now, page, task, isBreathing >>
           /\ (last' = "running") =>
                (currentPhase' = ExpectedPhase /\ scale' = ExpectedScale)
      /\ (ui' = "interval") =>
           /\ elapsedTime' = dom.elapsedTime + 1
           /\ UNCHANGED << currentPhase, scale, r, startTime, isResetting,
                           resetStartTime, frames, now, isBreathing >>
    ]_vars

\* a frame one second into a session, taken after the firing of that second:
\* the counter is 1 and the scale 1 + 1/4, as when the frame comes first
Witness_C26 ==
  /\ isBreathing
  /\ last = "running"
  /\ elapsedTime = 1
  /\ now - startTime = MsPerSecond
  /\ PatternIs(4, 4, 6)
  /\ scale = << 5, 4 >>
  /\ currentPhase = "inhale"

\* C27: while no session is running and currentPhase is Rest, a frame leaves
\* it Rest, also the frame that runs after stopBreathing() and before
\* BreathingSphere has rendered the stop.
Claim_C27 ==
  [][ (~isBreathing /\ currentPhase = "rest" /\ last' # NoFrame)
        => currentPhase' = "rest" ]_vars

\* C28: a frame of the running branch taken during a session (one started
\* while no session was running) measures the cycle time from the instant
\* that session was started: startTime is neither 0 nor the start of an
\* earlier session.
Claim_C28 ==
  (last = "running" /\ isBreathing /\ ~sess.restarted) =>
    startTime = sess.startedAt

\* C29: both BreathingTimer instances hold an interval due at the same
\* instant, one of them fires, and the render that follows re-creates both
\* intervals one second later: elapsedTime goes up once per second of the
\* session, from one less than the whole seconds since the start to exactly
\* that number, and never twice for the same second.
Thm_C29 ==
  [][ LET seconds == (now - sess.startedAt) \div MsPerSecond
      IN  /\ (ui' = "interval") =>
               /\ \A i \in Instances : timer[i] = now
               /\ elapsedTime = seconds - 1
               /\ elapsedTime' = seconds
          /\ (ui = "interval" /\ dom' # dom) =>
               \A i \in Instances : timer'[i] = now + TimerInterval
          /\ (isBreathing /\ elapsedTime' > elapsedTime) => ui' = "interval"
    ]_vars

\* two seconds into a session, after the second firing and the render that
\* followed it: the counter is 2 and both intervals are due a second later
Witness_C29 ==
  /\ isBreathing
  /\ Settled
  /\ now - sess.startedAt = 2 * MsPerSecond
  /\ elapsedTime = 2
  /\ \A i \in Instances : timer[i] = now + TimerInterval

\* C30: on the statistics page the current page is between 1 and
\* max(1, ceil(n / 4)) for the n sessions loaded; every page shows at most 4
\* sessions and the pages one after the other show the loaded list, each
\* session once and in stored order; the step of a confirmed Clear Data
\* leaves no session, page 1 and no stored item.
RECURSIVE PagesUpTo(_)
PagesUpTo(p) == IF p = 0 THEN << >> ELSE PagesUpTo(p - 1) \o PageSessions(p)

Thm_C30 ==
  /\ [](page = "stats" =>
          /\ currentPage \in 1..MathMax(1, TotalPages)
          /\ TotalPages * sessionsPerPage >= Len(sessions)
          /\ (TotalPages - 1) * sessionsPerPage < MathMax(1, Len(sessions))
          /\ \A p \in 1..MathMax(1, TotalPages) :
               Len(PageSessions(p)) <= sessionsPerPage
          /\ Len(CurrentSessions) > 0 \/ sessions = << >>
          /\ PagesUpTo(MathMax(1, TotalPages)) = sessions)
  /\ [][ (ui' = "clearConfirmed") =>
           (sessions' = << >> /\ currentPage' = 1 /\ storage' = NoItem) ]_vars

\* the third and last page of nine sessions, reached with Next: it shows
\* the ninth session alone
Witness_C30 ==
  /\ page = "stats"
  /\ ui = "next"
  /\ Len(sessions) = 9
  /\ currentPage = 3
  /\ CurrentSessions = << StoredList(9)[9] >>

====
